---- MODULE Spec2Model ----
(***************************************************************************)
(* Recipe retrieval tools (recipeTools.ts) over the Prisma Recipe store,   *)
(* and the scripts that run them (initDb, runTests, the swarm run).        *)
(*                                                                         *)
(* Strings are sequences of one-character strings.  A recipe is a record   *)
(* with the columns the tools read or filter on: id, title, category,      *)
(* ingredients, description, author, rating, cookTime.                     *)
(* matchPercentage is kept as the exact fraction <<numerator, denominator>>*)
(* of (matching / total) * 100; comparisons cross-multiply.                *)
(*                                                                         *)
(* store  : the rows of the Recipe table                                   *)
(* calls  : the invocations of the exported functions and tools            *)
(* probe  : input and output of the scorer and of extractKeyIngredients    *)
(*          taken alone                                                    *)
(* serial : input and outputs of serializeWithBigInt taken alone           *)
(* script : the position of a script in its try / catch / finally          *)
(*                                                                         *)
(* Spec           : findRecipesByAvailableIngredients and getSimilarRecipes*)
(* SpecTools      : every function and tool of recipeTools.ts              *)
(* SpecScore      : the scorer alone                                       *)
(* SpecTokenize   : the two splits of an ingredients text alone            *)
(* SpecSerialize  : serializeWithBigInt alone                              *)
(* SpecScripts    : the scripts alone (FairSpecScripts: with fairness)     *)
(* SpecPool       : a store larger than the candidate pool                 *)
(* SpecConcurrent : two invocations in flight at once                      *)
(* SpecShared     : searchRecipes while initDb writes to the store         *)
(***************************************************************************)
EXTENDS Integers, Sequences, FiniteSets, TLC

VARIABLES store, calls, probe, serial, script

vars == <<store, calls, probe, serial, script>>

(***************************************************************************)
(* Bounds of the model.                                                    *)
(***************************************************************************)
MaxId == 3
MaxLimit == 2
MaxTextLen == 3
MaxAvail == 2
MaxOffset == 2
MaxDepth == 2
MaxOps == 2
MaxRecords == 12
MaxTokenLen == 5
PoolExcess == 2

(***************************************************************************)
(* Program constants.                                                      *)
(***************************************************************************)
PoolTake == 1000
DefaultAvailableLimit == 10
DefaultSimilarLimit == 5
KeyIngredientMinLength == 3
KeyIngredientMax == 5
MatchThreshold == 50
ErrorLimit == 10
ToolDefaultLimit == 10
ToolDefaultOffset == 0

CallIds == {1}

(***************************************************************************)
(* Strings.                                                                *)
(***************************************************************************)
Null == <<"NULL">>
Undefined == <<"UNDEFINED">>

ToLowerCaseChar(ch) ==
    CASE ch = "E" -> "e"
      [] ch = "G" -> "g"
      [] ch = "R" -> "r"
      [] OTHER -> ch

ToLowerCase(s) == [i \in 1..Len(s) |-> ToLowerCaseChar(s[i])]

ToUpperCaseChar(ch) ==
    CASE ch = "e" -> "E"
      [] ch = "g" -> "G"
      [] ch = "r" -> "R"
      [] OTHER -> ch

ToUpperCase(s) == [i \in 1..Len(s) |-> ToUpperCaseChar(s[i])]

IsWhitespace(ch) == ch = " "

IsSeparator(ch) == ch \in {",", ";"}

\* s.startsWith(needle) at 1-based position pos, compared character by character
RECURSIVE MatchesAt(_, _, _, _)
MatchesAt(s, needle, pos, k) ==
    IF k > Len(needle) THEN TRUE
    ELSE IF pos + k - 1 > Len(s) THEN FALSE
    ELSE IF s[pos + k - 1] # needle[k] THEN FALSE
    ELSE MatchesAt(s, needle, pos, k + 1)

\* String.prototype.includes: scan the start positions from the left
RECURSIVE IncludesFrom(_, _, _)
IncludesFrom(s, needle, pos) ==
    IF pos + Len(needle) - 1 > Len(s) THEN FALSE
    ELSE IF MatchesAt(s, needle, pos, 1) THEN TRUE
    ELSE IncludesFrom(s, needle, pos + 1)

Includes(s, needle) == IncludesFrom(s, needle, 1)

\* String.prototype.trim
RECURSIVE TrimStart(_)
TrimStart(s) ==
    IF s # <<>> /\ IsWhitespace(Head(s)) THEN TrimStart(Tail(s)) ELSE s

RECURSIVE TrimEnd(_)
TrimEnd(s) ==
    IF s # <<>> /\ IsWhitespace(s[Len(s)])
    THEN TrimEnd(SubSeq(s, 1, Len(s) - 1))
    ELSE s

Trim(s) == TrimEnd(TrimStart(s))

\* String.prototype.split on a single-character separator class: the pieces
\* between separators, empty pieces included; "" gives one empty piece.
RECURSIVE SplitFrom(_, _, _)
SplitFrom(s, pos, current) ==
    IF pos > Len(s) THEN <<current>>
    ELSE IF IsSeparator(s[pos])
         THEN <<current>> \o SplitFrom(s, pos + 1, <<>>)
         ELSE SplitFrom(s, pos + 1, Append(current, s[pos]))

SplitEmptyGuarded(s) == IF Trim(s) = <<>> THEN <<>> ELSE SplitFrom(s, 1, <<>>)

SplitCommaOnly(s) ==
    LET RECURSIVE Go(_, _)
        Go(pos, current) ==
            IF pos > Len(s) THEN <<current>>
            ELSE IF s[pos] = ","
                 THEN <<current>> \o Go(pos + 1, <<>>)
                 ELSE Go(pos + 1, Append(current, s[pos]))
    IN Go(1, <<>>)

SplitIngredients(s) == SplitFrom(s, 1, <<>>)

\* String.prototype.split(/\s+/): runs of whitespace separate the words; a
\* leading or trailing run leaves an empty first or last word.
RECURSIVE SplitWsFrom(_, _, _)
SplitWsFrom(s, pos, current) ==
    IF pos > Len(s) THEN <<current>>
    ELSE IF IsWhitespace(s[pos])
         THEN IF pos > 1 /\ IsWhitespace(s[pos - 1])
              THEN SplitWsFrom(s, pos + 1, current)
              ELSE <<current>> \o SplitWsFrom(s, pos + 1, <<>>)
         ELSE SplitWsFrom(s, pos + 1, Append(current, s[pos]))

SplitWhitespace(s) == SplitWsFrom(s, 1, <<>>)

\* Array.prototype.slice(start, end) for start >= 0
Slice(seq, start, end) ==
    LET len == Len(seq)
        e0 == IF end < 0 THEN len + end ELSE end
        e == IF e0 < 0 THEN 0 ELSE IF e0 > len THEN len ELSE e0
        b == IF start > len THEN len ELSE start
    IN IF e <= b THEN <<>> ELSE SubSeq(seq, b + 1, e)

(***************************************************************************)
(* The Recipe table (prisma/schema.prisma).                                *)
(***************************************************************************)
SchemaFields ==
    {"id", "title", "url", "category", "author", "description", "rating",
     "ratingCount", "reviewCount", "ingredients", "directions", "prepTime",
     "cookTime", "totalTime", "servings", "yields", "calories",
     "carbohydrates", "sugars", "fat", "protein", "sodium",
     "instructionList", "image"}

Rice == <<"r", "i", "c", "e">>
RiceCap == <<"R", "i", "c", "e">>
Egg == <<"e", "g", "g">>
EggUpper == <<"E", "G", "G">>
Oil == <<"o", "i", "l">>

Oils == <<"o", "i", "l", "s">>
Five == <<"5">>
Ten == <<"1", "0">>

\* the columns the tools read or filter on; a nullable text column holds
\* Null or a text, the nullable number rating holds <<>> or <<n>>
Bodies ==
    << [title |-> Rice \o <<" ">> \o Egg, category |-> Null,
        ingredients |-> Rice,
        description |-> Null, author |-> Null, rating |-> <<>>,
        cookTime |-> Null],
       [title |-> RiceCap, category |-> Egg,
        ingredients |-> RiceCap \o <<",">> \o Egg,
        description |-> Oil, author |-> Egg, rating |-> <<5>>,
        cookTime |-> Five],
       [title |-> Egg, category |-> Null,
        ingredients |-> Rice \o <<";", " ">> \o Egg \o <<",", " ">> \o Oil,
        description |-> Null, author |-> RiceCap, rating |-> <<4>>,
        cookTime |-> Ten],
       [title |-> Oil, category |-> Oil,
        ingredients |-> <<>>,
        description |-> Rice, author |-> Null, rating |-> <<>>,
        cookTime |-> Null],
       [title |-> Egg \o <<" ">> \o Oil, category |-> Null,
        ingredients |-> Egg \o <<",">> \o Oil,
        description |-> Null, author |-> Null, rating |-> <<>>,
        cookTime |-> Five],
       [title |-> Oil, category |-> Null,
        ingredients |-> Rice \o <<",">> \o Oils,
        description |-> Null, author |-> Null, rating |-> <<4>>,
        cookTime |-> Null] >>

MakeRecipe(id, body) == [id |-> id] @@ body

\* a store holds at most one recipe per id (id is the primary key)
StoreOf(f) == {MakeRecipe(i, Bodies[f[i]]) : i \in {j \in DOMAIN f : f[j] # 0}}

Stores == {StoreOf(f) : f \in [1..MaxId -> 0..Len(Bodies)]}

\* the lists of available ingredients a caller passes
PantryLists ==
    { <<>>, <<Rice>>, <<EggUpper>>, <<Rice, EggUpper>>, <<Rice, Rice>>,
      << <<>> >> }

Limits == (0 - 1)..MaxLimit

\* reading a property of a fetched row: a column the row does not have
\* reads as undefined
GetField(recipe, field) ==
    IF field \in DOMAIN recipe THEN recipe[field] ELSE Undefined

\* truthiness of a string-or-null-or-undefined value
Truthy(v) == v # Undefined /\ v # Null /\ v # <<>>

(***************************************************************************)
(* Prisma where clauses.                                                   *)
(*   [type |-> "all"]                          where: {}                   *)
(*   [type |-> "contains", field, value]       { field: { contains } }     *)
(*   [type |-> "idNot", value]                 { id: { not } }             *)
(*   [type |-> "gte", field, value]            { field: { gte } }          *)
(*   [type |-> "lte", field, value]            { field: { lte } }          *)
(*   [type |-> "OR", args] / [type |-> "AND", args]                        *)
(***************************************************************************)
WhereAll == [type |-> "all"]
WhereContains(field, value) ==
    [type |-> "contains", field |-> field, value |-> value]
WhereIdNot(id) == [type |-> "idNot", value |-> id]
WhereGte(field, value) == [type |-> "gte", field |-> field, value |-> value]
WhereLte(field, value) == [type |-> "lte", field |-> field, value |-> value]
WhereOr(args) == [type |-> "OR", args |-> args]
WhereAnd(args) == [type |-> "AND", args |-> args]

\* the client rejects a filter on a field the model does not have
RECURSIVE ValidWhere(_)
ValidWhere(w) ==
    CASE w.type \in {"contains", "gte", "lte"} -> w.field \in SchemaFields
      [] w.type \in {"OR", "AND"} ->
            \A i \in 1..Len(w.args) : ValidWhere(w.args[i])
      [] OTHER -> TRUE

\* SQLite LIKE '%value%': ASCII letters compare without case; a NULL column
\* matches nothing
ColumnContains(recipe, field, value) ==
    LET col == GetField(recipe, field)
    IN /\ col # Null
       /\ col # Undefined
       /\ Includes(ToLowerCase(col), ToLowerCase(value))

Digits == <<"0", "1", "2", "3", "4", "5", "6", "7", "8", "9">>

CharCode(ch) == CHOOSE i \in 1..Len(Digits) : Digits[i] = ch

\* a <= b for TEXT values: byte by byte, a proper prefix first
RECURSIVE TextLte(_, _)
TextLte(a, b) ==
    IF a = <<>> THEN TRUE
    ELSE IF b = <<>> THEN FALSE
    ELSE IF a[1] = b[1] THEN TextLte(Tail(a), Tail(b))
    ELSE CharCode(a[1]) < CharCode(b[1])

\* an empty OR matches no row, an empty AND matches every row; a comparison
\* with a NULL column matches nothing
RECURSIVE MatchesWhere(_, _)
MatchesWhere(recipe, w) ==
    CASE w.type = "all" -> TRUE
      [] w.type = "contains" -> ColumnContains(recipe, w.field, w.value)
      [] w.type = "idNot" -> recipe.id # w.value
      [] w.type = "gte" ->
            recipe[w.field] # <<>> /\ recipe[w.field][1] >= w.value
      [] w.type = "lte" ->
            recipe[w.field] # Null /\ TextLte(recipe[w.field], w.value)
      [] w.type = "OR" ->
            \E i \in 1..Len(w.args) : MatchesWhere(recipe, w.args[i])
      [] w.type = "AND" ->
            \A i \in 1..Len(w.args) : MatchesWhere(recipe, w.args[i])

\* orderBy: { id: 'desc' }: id is the primary key, so the rows are read off
\* the ids from the highest to the lowest
OrderByIdDesc(S) ==
    IF S = {} THEN <<>>
    ELSE LET ids == {r.id : r \in S}
             hi == CHOOSE m \in ids : \A o \in ids : o <= m
             lo == CHOOSE m \in ids : \A o \in ids : m <= o
             descending == [k \in 1..(hi - lo + 1) |-> hi + 1 - k]
             Present(i) == i \in ids
             RowOf(i) == CHOOSE r \in S : r.id = i
             kept == SelectSeq(descending, Present)
         IN [k \in 1..Len(kept) |-> RowOf(kept[k])]

TakeIgnored(rows, n) == rows

\* take n >= 0: the first n rows; take n < 0: the last -n rows
Take(rows, n) ==
    IF n >= 0
    THEN SubSeq(rows, 1, IF n < Len(rows) THEN n ELSE Len(rows))
    ELSE SubSeq(rows, IF Len(rows) + n < 0 THEN 1 ELSE Len(rows) + n + 1,
                Len(rows))

FindMany(S, where, take) ==
    Take(OrderByIdDesc({r \in S : MatchesWhere(r, where)}), take)

\* findUnique({ where: { id } }): the row in a sequence, or none
FindUnique(S, id) == OrderByIdDesc({r \in S : r.id = id})

Reverse(rows) == [i \in 1..Len(rows) |-> rows[Len(rows) + 1 - i]]

\* skip n >= 0
Skip(rows, n) == SubSeq(rows, n + 1, Len(rows))

\* findMany with take and skip: a negative take pages backwards from the end
\* of the ordered rows
FindManySkip(S, where, take, skip) ==
    LET rows == OrderByIdDesc({r \in S : MatchesWhere(r, where)})
    IN IF take >= 0 THEN Take(Skip(rows, skip), take)
       ELSE Reverse(Take(Skip(Reverse(rows), skip), 0 - take))

\* count({ where })
Count(S, where) == Cardinality({r \in S : MatchesWhere(r, where)})

(***************************************************************************)
(* findRecipesByAvailableIngredients: scoring and ranking.                 *)
(***************************************************************************)
EmptyListNegationDropped(availableIngredients) == Len(availableIngredients) # 0

\* !availableIngredients.length
IsEmptyList(availableIngredients) == Len(availableIngredients) = 0

MatchingIngredientsRawCase(recipe, availableIngredients) ==
    LET recipeIngredients == ToLowerCase(recipe.ingredients)
        Present(ingredient) == Includes(recipeIngredients, ingredient)
    IN SelectSeq(availableIngredients, Present)

\* availableIngredients.filter(i => recipeIngredients.includes(i.toLowerCase()))
MatchingIngredients(recipe, availableIngredients) ==
    LET recipeIngredients == ToLowerCase(recipe.ingredients)
        Present(ingredient) ==
            Includes(recipeIngredients, ToLowerCase(ingredient))
    IN SelectSeq(availableIngredients, Present)

\* recipe.ingredients.split(/[,;]/).length
TotalIngredients(recipe) == Len(SplitIngredients(recipe.ingredients))

ScoreRecipeIdOnly(recipe, availableIngredients) ==
    LET matching == Len(MatchingIngredients(recipe, availableIngredients))
        total == TotalIngredients(recipe)
    IN [id |-> recipe.id, matchPercentage |-> <<matching * 100, total>>,
        missingIngredientsCount |-> total - matching]

ScoreRecipeClamped(recipe, availableIngredients) ==
    LET matching == Len(MatchingIngredients(recipe, availableIngredients))
        total == TotalIngredients(recipe)
    IN [matchPercentage |-> <<matching * 100, total>>,
        missingIngredientsCount |->
            IF total < matching THEN 0 ELSE total - matching] @@ recipe

\* { ...recipe, matchPercentage, missingIngredientsCount }
ScoreRecipe(recipe, availableIngredients) ==
    LET matching == Len(MatchingIngredients(recipe, availableIngredients))
        total == TotalIngredients(recipe)
    IN [matchPercentage |-> <<matching * 100, total>>,
        missingIngredientsCount |-> total - matching] @@ recipe

\* fraction comparisons (denominators are positive)
FracLess(x, y) == x[1] * y[2] < y[1] * x[2]
FracEq(x, y) == x[1] * y[2] = y[1] * x[2]
FracOfInt(n) == <<n, 1>>

PassesAtLeastThreshold(scored) ==
    ~FracLess(scored.matchPercentage, FracOfInt(MatchThreshold))

\* recipe.matchPercentage > 50
PassesThreshold(scored) ==
    FracLess(FracOfInt(MatchThreshold), scored.matchPercentage)

\* (a, b) => b.matchPercentage - a.matchPercentage, by sign
CompareDesc(a, b) ==
    IF FracLess(a.matchPercentage, b.matchPercentage) THEN 1
    ELSE IF FracLess(b.matchPercentage, a.matchPercentage) THEN 0 - 1
    ELSE 0

InsertBeforeEqual(sorted, x) ==
    LET before == {i \in 1..Len(sorted) : CompareDesc(sorted[i], x) >= 0}
        pos == IF before = {} THEN Len(sorted) + 1
               ELSE CHOOSE i \in before : \A j \in before : i <= j
    IN SubSeq(sorted, 1, pos - 1) \o <<x>> \o SubSeq(sorted, pos, Len(sorted))

\* one step of the stable sort: x goes before the first element the
\* comparator orders after it, so it stays behind the elements it ties with
InsertSorted(sorted, x) ==
    LET before == {i \in 1..Len(sorted) : CompareDesc(sorted[i], x) > 0}
        pos == IF before = {} THEN Len(sorted) + 1
               ELSE CHOOSE i \in before : \A j \in before : i <= j
    IN SubSeq(sorted, 1, pos - 1) \o <<x>> \o SubSeq(sorted, pos, Len(sorted))

\* Array.prototype.sort with CompareDesc
RECURSIVE SortFrom(_, _, _)
SortFrom(seq, k, sorted) ==
    IF k > Len(seq) THEN sorted
    ELSE SortFrom(seq, k + 1, InsertSorted(sorted, seq[k]))

SortDesc(seq) == SortFrom(seq, 1, <<>>)

RankSliceBeforeSort(scoredRecipes, limit) ==
    SortDesc(Slice(SelectSeq(scoredRecipes, PassesThreshold), 0, limit))

\* scoredRecipes.filter(...).sort(...).slice(0, limit)
RankRecipes(scoredRecipes, limit) ==
    Slice(SortDesc(SelectSeq(scoredRecipes, PassesThreshold)), 0, limit)

ScoreAllShared(recipes, availableIngredients) ==
    LET first == CHOOSE c \in DOMAIN calls : \A d \in DOMAIN calls : c <= d
    IN [i \in 1..Len(recipes) |->
           ScoreRecipe(recipes[i], calls[first].availableIngredients)]

ScoreAll(recipes, availableIngredients) ==
    [i \in 1..Len(recipes) |-> ScoreRecipe(recipes[i], availableIngredients)]

(***************************************************************************)
(* getSimilarRecipes: keywords and query.                                  *)
(***************************************************************************)
ExtractKeyIngredientsUntrimmed(ingredients) ==
    LET pieces == SplitIngredients(ingredients)
        Long(item) == Len(item) > KeyIngredientMinLength
    IN Slice(SelectSeq(pieces, Long), 0, KeyIngredientMax)

\* split, trim, keep the pieces longer than 3, first 5
ExtractKeyIngredients(ingredients) ==
    LET pieces == SplitIngredients(ingredients)
        trimmed == [i \in 1..Len(pieces) |-> Trim(pieces[i])]
        Long(item) == Len(item) > KeyIngredientMinLength
    IN Slice(SelectSeq(trimmed, Long), 0, KeyIngredientMax)

\* recipe is <<>> (null) or <<row>>; the row is read through ?. so a null
\* recipe gives no keyword
Keywords(recipe) ==
    IF recipe = <<>> THEN <<>>
    ELSE LET row == recipe[1]
             name == GetField(row, "name")
             cuisine == GetField(row, "cuisine")
             ingredients == GetField(row, "ingredients")
         IN (IF Truthy(name) THEN SplitWhitespace(name) ELSE <<>>)
            \o (IF Truthy(cuisine) THEN <<cuisine>> ELSE <<>>)
            \o (IF Truthy(ingredients)
                THEN ExtractKeyIngredients(ingredients) ELSE <<>>)

SimilarWhereUnfiltered(recipeId, keywords) == WhereAll

SimilarWhereIdOnly(recipeId, keywords) == WhereIdNot(recipeId)

SimilarWhereEveryKeyword(recipeId, keywords) ==
    WhereAnd(<<
        WhereIdNot(recipeId),
        WhereAnd([k \in 1..Len(keywords) |->
            WhereOr(<< WhereContains("name", keywords[k]),
                       WhereContains("cuisine", keywords[k]),
                       WhereContains("ingredients", keywords[k]) >>)]) >>)

\* { id: { not: recipeId }, OR: keywords.map(k => ({ OR: [name, cuisine,
\* ingredients contains k] })) }: the keys of one object are conjoined
SimilarWhere(recipeId, keywords) ==
    WhereAnd(<<
        WhereIdNot(recipeId),
        WhereOr([k \in 1..Len(keywords) |->
            WhereOr(<< WhereContains("name", keywords[k]),
                       WhereContains("cuisine", keywords[k]),
                       WhereContains("ingredients", keywords[k]) >>)]) >>)

ReferenceNeverMissing(recipe) == FALSE

\* !recipe
ReferenceMissing(recipe) == recipe = <<>>

(***************************************************************************)
(* serializeWithBigInt.  A JavaScript value is                             *)
(*   [t |-> "null"], [t |-> "undefined"], [t |-> "bigint", big |-> n],     *)
(*   [t |-> "number", num |-> n], [t |-> "string", str |-> chars],         *)
(*   [t |-> "array", items |-> values] or                                  *)
(*   [t |-> "object", keys |-> names, vals |-> values] (own keys in order) *)
(***************************************************************************)
JsNull == [t |-> "null"]
JsUndefined == [t |-> "undefined"]
JsBigInt(n) == [t |-> "bigint", big |-> n]
JsNumber(n) == [t |-> "number", num |-> n]
JsString(s) == [t |-> "string", str |-> s]
JsArray(items) == [t |-> "array", items |-> items]
JsObject(keys, vals) == [t |-> "object", keys |-> keys, vals |-> vals]

\* the decimal digits of a natural number
RECURSIVE NatToString(_)
NatToString(n) ==
    IF n < 10 THEN <<Digits[n + 1]>>
    ELSE NatToString(n \div 10) \o <<Digits[(n % 10) + 1]>>

\* bigint.toString()
BigIntToString(n) ==
    IF n < 0 THEN <<"-">> \o NatToString(0 - n) ELSE NatToString(n)

RECURSIVE SerializeArraysKept(_)
SerializeArraysKept(obj) ==
    CASE obj.t = "bigint" -> JsString(BigIntToString(obj.big))
      [] obj.t = "object" ->
            JsObject(obj.keys,
                     [i \in 1..Len(obj.vals) |-> SerializeArraysKept(obj.vals[i])])
      [] OTHER -> obj

RECURSIVE SerializeWithBigInt(_)
SerializeWithBigInt(obj) ==
    CASE obj.t \in {"null", "undefined"} -> obj
      [] obj.t = "bigint" -> JsString(BigIntToString(obj.big))
      [] obj.t = "array" ->
            JsArray([i \in 1..Len(obj.items) |->
                        SerializeWithBigInt(obj.items[i])])
      [] obj.t = "object" ->
            JsObject(obj.keys,
                     [i \in 1..Len(obj.vals) |-> SerializeWithBigInt(obj.vals[i])])
      [] OTHER -> obj

Twelve == <<"1", "2">>

\* primitives: an id as bigint, number and text, a negative and a zero bigint
JsLeaves ==
    { JsNull, JsUndefined, JsBigInt(12), JsBigInt(0 - 30), JsBigInt(0),
      JsNumber(12), JsString(Twelve) }

\* values nested up to depth d: arrays of up to two elements, objects of up
\* to two keys
RECURSIVE JsValues(_)
JsValues(d) ==
    IF d = 0 THEN JsLeaves
    ELSE LET inner == JsValues(d - 1)
         IN JsLeaves
            \cup {JsArray(<<>>), JsObject(<<>>, <<>>)}
            \cup {JsArray(<<v>>) : v \in inner}
            \cup {JsArray(<<l, v>>) : l \in JsLeaves, v \in inner}
            \cup {JsObject(<<"id">>, <<v>>) : v \in inner}
            \cup {JsObject(<<"id", "rows">>, <<l, v>>) :
                     l \in JsLeaves, v \in inner}

NoSerial == [input |-> JsNull, once |-> <<>>, twice |-> <<>>]

(***************************************************************************)
(* searchRecipes and the by-field tools: where clause and pagination.      *)
(* An option that is a text is Undefined when omitted; the ingredients     *)
(* list and minRating are <<>> when omitted and <<value>> when given.      *)
(***************************************************************************)
NoOptions ==
    [title |-> Undefined, ingredients |-> <<>>, category |-> Undefined,
     author |-> Undefined, minRating |-> <<>>, maxCookTime |-> Undefined,
     searchTerm |-> Undefined]

SearchWhereUnfiltered(options) == WhereAll

\* whereClause: each supplied criterion adds a key, the keys are conjoined
SearchWhere(options) ==
    WhereAnd(
        (IF Truthy(options.searchTerm)
         THEN << WhereOr(<< WhereContains("title", options.searchTerm),
                            WhereContains("description", options.searchTerm),
                            WhereContains("ingredients", options.searchTerm) >>) >>
         ELSE <<>>)
        \o (IF Truthy(options.title)
            THEN << WhereContains("title", options.title) >> ELSE <<>>)
        \o (IF options.ingredients # <<>> /\ Len(options.ingredients[1]) > 0
            THEN << WhereAnd([i \in 1..Len(options.ingredients[1]) |->
                       WhereContains("ingredients", options.ingredients[1][i])]) >>
            ELSE <<>>)
        \o (IF Truthy(options.category)
            THEN << WhereContains("category", options.category) >> ELSE <<>>)
        \o (IF Truthy(options.author)
            THEN << WhereContains("author", options.author) >> ELSE <<>>)
        \o (IF options.minRating # <<>>
            THEN << WhereGte("rating", options.minRating[1]) >> ELSE <<>>)
        \o (IF Truthy(options.maxCookTime)
            THEN << WhereLte("cookTime", options.maxCookTime) >> ELSE <<>>))

\* a JavaScript number that is an integer, NaN or Infinity
Number(n) == [kind |-> "int", value |-> n]
NaN == [kind |-> "NaN", value |-> 0]
Infinity == [kind |-> "Infinity", value |-> 1]

\* Math.floor(a / b) and Math.ceil(a / b) for b # 0
FloorDiv(a, b) == IF b > 0 THEN a \div b ELSE (0 - a) \div (0 - b)
CeilDiv(a, b) == 0 - FloorDiv(0 - a, b)

\* a / 0 for a >= 0
DivideByZero(a) == IF a = 0 THEN NaN ELSE Infinity

PageOfCeil(offset, limit) ==
    IF limit = 0 THEN DivideByZero(offset)
    ELSE Number(CeilDiv(offset, limit) + 1)

\* Math.floor(offset / limit) + 1
PageOf(offset, limit) ==
    IF limit = 0 THEN DivideByZero(offset)
    ELSE Number(FloorDiv(offset, limit) + 1)

\* Math.ceil(total / limit)
TotalPagesOf(total, limit) ==
    IF limit = 0 THEN DivideByZero(total)
    ELSE Number(CeilDiv(total, limit))

\* serializeWithBigInt applied to fetched rows: each row is rebuilt key by
\* key; a row holds numbers, texts and nulls, which are kept
SerializeRows(rows) ==
    [i \in 1..Len(rows) |-> [f \in DOMAIN rows[i] |-> rows[i][f]]]

\* { data, total, page, pageSize, totalPages }
PaginatedResult(recipes, total, limit, offset) ==
    [data |-> SerializeRows(recipes), total |-> total,
     page |-> PageOf(offset, limit), pageSize |-> limit,
     totalPages |-> TotalPagesOf(total, limit)]

\* searchRecipesByTitle / ByIngredient / ByCategory: the options they pass
TitleOptions(title) == [NoOptions EXCEPT !.title = title]
IngredientOptions(ingredient) ==
    [NoOptions EXCEPT !.ingredients = << <<ingredient>> >>]
CategoryOptions(category) == [NoOptions EXCEPT !.category = category]

\* the field each by-field tool filters on
ToolField(tool) ==
    CASE tool = "titleTool" -> "name"
      [] tool = "ingredientTool" -> "ingredients"
      [] tool = "categoryTool" -> "cuisine"

FieldTools == {"titleTool", "ingredientTool", "categoryTool"}

\* the option sets callers pass to searchRecipes
SearchOptionSets ==
    { NoOptions,
      TitleOptions(RiceCap), TitleOptions(<<>>),
      IngredientOptions(Rice), IngredientOptions(Oil),
      CategoryOptions(Oil), CategoryOptions(Rice),
      [NoOptions EXCEPT !.ingredients = << <<Rice, Egg>> >>],
      [NoOptions EXCEPT !.ingredients = << <<>> >>],
      [NoOptions EXCEPT !.searchTerm = Rice],
      [NoOptions EXCEPT !.author = Egg],
      [NoOptions EXCEPT !.minRating = <<0>>],
      [NoOptions EXCEPT !.minRating = <<5>>],
      [NoOptions EXCEPT !.maxCookTime = Five],
      [NoOptions EXCEPT !.title = <<"e">>, !.minRating = <<5>>,
                        !.ingredients = << <<Egg>> >>],
      [NoOptions EXCEPT !.searchTerm = Oil, !.category = Oil] }

\* the texts callers pass to the by-field tools
ToolTexts == {Rice, Oil}

Offsets == 0..MaxOffset

(***************************************************************************)
(* The scripts: initDb main, runTests and the swarm run.  A script runs    *)
(* the awaited steps of its try block in order; a step performs store      *)
(* operations one after the other.  inflight counts the store operations   *)
(* awaited, closed tells that prisma.$disconnect() has completed.          *)
(***************************************************************************)
Scripts == {"initDb", "runTests", "swarm"}

\* the awaited steps of the try block
ScriptSteps(name) ==
    CASE name = "initDb" ->
            <<"resetDatabase", "fetchAndParseCSV", "importRecipes",
              "checkDatabase">>
      [] name = "runTests" ->
            <<"test1", "test2", "test3", "test4", "test5", "test6", "test7",
              "test8", "test9", "test10">>
      [] name = "swarm" -> <<"invoke1", "invoke2", "invoke3">>
      [] OTHER -> <<>>

CurrentStep(s) == ScriptSteps(s.name)[s.step]

\* how many store operations a step may perform
StoreOps(s) ==
    CASE s.name = "initDb" ->
            (CASE CurrentStep(s) = "fetchAndParseCSV" -> {0}
               [] CurrentStep(s) = "importRecipes" -> {s.records}
               [] OTHER -> {1})
      [] s.name = "runTests" -> 1..MaxOps
      [] OTHER -> 0..MaxOps

NoScript ==
    [name |-> "none", pc |-> "idle", step |-> 0, remaining |-> 0,
     inflight |-> 0, closed |-> FALSE, threw |-> FALSE, records |-> 0,
     importedCount |-> 0, errorCount |-> 0]

\* the step is over: the next step, or the finally block after the last one
Advance(s) ==
    IF s.step < Len(ScriptSteps(s.name))
    THEN [s EXCEPT !.pc = "try", !.step = @ + 1, !.remaining = 0]
    ELSE [s EXCEPT !.pc = "finally", !.remaining = 0]

AfterThrowNoFinally(s) == [s EXCEPT !.pc = "exited", !.threw = TRUE]

\* where an error thrown inside a step goes: the per-record catch of
\* importRecipes, the catch of runTest, or the catch of the script and then
\* its finally
AfterThrow(s) ==
    IF s.name = "initDb" /\ CurrentStep(s) = "importRecipes"
    THEN [s EXCEPT !.pc = "step", !.threw = TRUE, !.errorCount = @ + 1,
                   !.remaining = IF s.errorCount + 1 > ErrorLimit
                                 THEN 0 ELSE @]
    ELSE IF s.name = "runTests"
    THEN [Advance(s) EXCEPT !.threw = TRUE]
    ELSE [s EXCEPT !.pc = "finally", !.threw = TRUE, !.remaining = 0]

(***************************************************************************)
(* Invocations.  A call runs from "idle" to "done"; it stops at each await *)
(* of a store operation.  queries lists the store operations the call has  *)
(* issued, resolved counts the ones that have returned a value, raised is   *)
(* the error a failed store operation threw, error the one the caller gets.*)
(***************************************************************************)
IdleCall ==
    [op |-> "none", pc |-> "idle", availableIngredients |-> <<>>,
     limit |-> 0, recipeId |-> 0, recipe |-> <<>>, keywords |-> <<>>,
     scoredRecipes |-> <<>>, result |-> <<>>, status |-> "none",
     error |-> "none", queries |-> <<>>, resolved |-> 0,
     options |-> NoOptions, offset |-> 0, where |-> WhereAll,
     recipes |-> <<>>, paginated |-> <<>>, raised |-> "none"]

NoProbe == [recipe |-> MakeRecipe(0, Bodies[1]), availableIngredients |-> <<>>,
            scored |-> <<>>]

Init ==
    /\ store \in Stores
    /\ calls = [c \in CallIds |-> IdleCall]
    /\ probe = NoProbe
    /\ serial = NoSerial
    /\ script = NoScript

\* findRecipesByAvailableIngredients up to its first await
FindStart(c, availableIngredients, limit) ==
    /\ calls[c].pc = "idle"
    /\ calls' = [calls EXCEPT ![c] =
          IF IsEmptyList(availableIngredients)
          THEN [IdleCall EXCEPT !.op = "find", !.pc = "done",
                                !.availableIngredients = availableIngredients,
                                !.limit = limit, !.status = "ok"]
          ELSE [IdleCall EXCEPT !.op = "find", !.pc = "awaitPool",
                                !.availableIngredients = availableIngredients,
                                !.limit = limit,
                                !.queries = <<"findMany">>]]
    /\ UNCHANGED <<store, probe, serial, script>>

\* the pool query returns: score, filter, sort, slice, return
FindPoolResolved(c) ==
    /\ calls[c].pc = "awaitPool"
    /\ LET recipes == FindMany(store, WhereAll, PoolTake)
           scoredRecipes == ScoreAll(recipes, calls[c].availableIngredients)
       IN calls' = [calls EXCEPT ![c] =
             [@ EXCEPT !.pc = "done", !.resolved = @ + 1,
                       !.scoredRecipes = scoredRecipes,
                       !.result = RankRecipes(scoredRecipes, calls[c].limit),
                       !.status = "ok"]]
    /\ UNCHANGED <<store, probe, serial, script>>

\* getSimilarRecipes up to its first await
SimilarStart(c, recipeId, limit) ==
    /\ calls[c].pc = "idle"
    /\ calls' = [calls EXCEPT ![c] =
          [IdleCall EXCEPT !.op = "similar", !.pc = "awaitReference",
                           !.recipeId = recipeId, !.limit = limit,
                           !.queries = <<"findUnique">>]]
    /\ UNCHANGED <<store, probe, serial, script>>

\* findUnique returns: throw when null, else build the keywords and query
SimilarReferenceResolved(c) ==
    /\ calls[c].pc = "awaitReference"
    /\ LET recipe == FindUnique(store, calls[c].recipeId)
       IN calls' = [calls EXCEPT ![c] =
             IF ReferenceMissing(recipe)
             THEN [@ EXCEPT !.pc = "done", !.resolved = @ + 1,
                            !.status = "error", !.error = "NotFound"]
             ELSE [@ EXCEPT !.pc = "awaitSimilar", !.resolved = @ + 1,
                            !.recipe = recipe,
                            !.keywords = Keywords(recipe),
                            !.queries = Append(@, "findMany")]]
    /\ UNCHANGED <<store, probe, serial, script>>

\* the similarity query settles: rejected by the client's validation of the
\* where clause, or the rows
SimilarQueryResolved(c) ==
    /\ calls[c].pc = "awaitSimilar"
    /\ LET where == SimilarWhere(calls[c].recipeId, calls[c].keywords)
       IN calls' = [calls EXCEPT ![c] =
             IF ~ValidWhere(where)
             THEN [@ EXCEPT !.pc = "done", !.status = "error",
                            !.error = "ValidationError"]
             ELSE [@ EXCEPT !.pc = "done", !.resolved = @ + 1,
                            !.result = FindMany(store, where, calls[c].limit),
                            !.status = "ok"]]
    /\ UNCHANGED <<store, probe, serial, script>>

\* searchRecipes up to its first await
SearchStart(c, options, limit, offset) ==
    /\ calls[c].pc = "idle"
    /\ calls' = [calls EXCEPT ![c] =
          [IdleCall EXCEPT !.op = "search", !.pc = "awaitPage",
                           !.options = options, !.limit = limit,
                           !.offset = offset, !.where = SearchWhere(options),
                           !.queries = <<"findMany">>]]
    /\ UNCHANGED <<store, probe, serial, script>>

\* args.limit || 10, args.offset || 0: an omitted argument (<<>>) and 0 give
\* the default
OrDefault(arg, default) ==
    IF arg = <<>> THEN default
    ELSE IF arg[1] = 0 THEN default ELSE arg[1]

\* the options searchRecipesTool passes to searchRecipes
SearchToolOptions(query, category, ingredient) ==
    [NoOptions EXCEPT !.searchTerm = query, !.category = category,
                      !.ingredients = IF Truthy(ingredient)
                                      THEN << <<ingredient>> >> ELSE <<>>]

\* searchRecipesTool: searchRecipes up to its first await, on the options
\* and numbers the tool derives from its arguments
SearchToolStart(c, query, category, ingredient, limit, offset) ==
    LET options == SearchToolOptions(query, category, ingredient)
    IN /\ calls[c].pc = "idle"
       /\ calls' = [calls EXCEPT ![c] =
             [IdleCall EXCEPT !.op = "searchTool", !.pc = "awaitPage",
                              !.options = options,
                              !.limit = OrDefault(limit, ToolDefaultLimit),
                              !.offset = OrDefault(offset, ToolDefaultOffset),
                              !.where = SearchWhere(options),
                              !.queries = <<"findMany">>]]
       /\ UNCHANGED <<store, probe, serial, script>>

\* searchRecipesByTitleTool / ByIngredientTool / ByCategoryTool up to their
\* first await
FieldToolStart(c, tool, text, limit, offset) ==
    /\ calls[c].pc = "idle"
    /\ calls' = [calls EXCEPT ![c] =
          [IdleCall EXCEPT !.op = tool, !.pc = "awaitPage",
                           !.limit = limit, !.offset = offset,
                           !.where = WhereContains(ToolField(tool), text),
                           !.queries = <<"findMany">>]]
    /\ UNCHANGED <<store, probe, serial, script>>

\* the page query settles: rejected by the client's validation of the where
\* clause, or the rows; then the count query is issued
PageQueryResolved(c) ==
    /\ calls[c].pc = "awaitPage"
    /\ calls' = [calls EXCEPT ![c] =
          IF ~ValidWhere(calls[c].where)
          THEN [@ EXCEPT !.pc = "done", !.status = "error",
                         !.error = "ValidationError"]
          ELSE [@ EXCEPT !.pc = "awaitCount", !.resolved = @ + 1,
                         !.recipes = FindManySkip(store, calls[c].where,
                                        calls[c].limit, calls[c].offset),
                         !.queries = Append(@, "count")]]
    /\ UNCHANGED <<store, probe, serial, script>>

\* the count query returns: compute the pagination and return
CountQueryResolved(c) ==
    /\ calls[c].pc = "awaitCount"
    /\ LET total == Count(store, calls[c].where)
       IN calls' = [calls EXCEPT ![c] =
             [@ EXCEPT !.pc = "done", !.resolved = @ + 1,
                       !.paginated = << PaginatedResult(calls[c].recipes,
                                          total, calls[c].limit,
                                          calls[c].offset) >>,
                       !.status = "ok"]]
    /\ UNCHANGED <<store, probe, serial, script>>

\* getRecipeById up to its await
GetByIdStart(c, id) ==
    /\ calls[c].pc = "idle"
    /\ calls' = [calls EXCEPT ![c] =
          [IdleCall EXCEPT !.op = "getById", !.pc = "awaitById",
                           !.recipeId = id, !.queries = <<"findUnique">>]]
    /\ UNCHANGED <<store, probe, serial, script>>

\* getRecipeByIdTool up to the await of getRecipeById, which is at its own
\* await of findUnique
GetByIdToolStart(c, id) ==
    /\ calls[c].pc = "idle"
    /\ calls' = [calls EXCEPT ![c] =
          [IdleCall EXCEPT !.op = "getByIdTool", !.pc = "awaitById",
                           !.recipeId = id, !.queries = <<"findUnique">>]]
    /\ UNCHANGED <<store, probe, serial, script>>

RecipeAlwaysFound(recipe) == FALSE

\* !recipe in getRecipeByIdTool
RecipeNotFound(recipe) == recipe = <<>>

\* findUnique returns: getRecipeById returns the recipe or null as it is;
\* getRecipeByIdTool then throws on null and serializes a recipe
GetByIdResolved(c) ==
    /\ calls[c].pc = "awaitById"
    /\ LET recipe == FindUnique(store, calls[c].recipeId)
       IN calls' = [calls EXCEPT ![c] =
             IF calls[c].op = "getByIdTool" /\ RecipeNotFound(recipe)
             THEN [@ EXCEPT !.pc = "done", !.resolved = @ + 1,
                            !.status = "error", !.error = "NotFound"]
             ELSE IF calls[c].op = "getByIdTool"
             THEN [@ EXCEPT !.pc = "done", !.resolved = @ + 1,
                            !.recipe = recipe,
                            !.result = SerializeRows(recipe),
                            !.status = "ok"]
             ELSE [@ EXCEPT !.pc = "done", !.resolved = @ + 1,
                            !.recipe = recipe,
                            !.status = "ok"]]
    /\ UNCHANGED <<store, probe, serial, script>>

AwaitingStore ==
    {"awaitPool", "awaitReference", "awaitSimilar", "awaitPage", "awaitCount",
     "awaitById"}

RethrowSwallowed(call, e) ==
    [call EXCEPT !.pc = "done", !.status = "ok", !.raised = e,
                 !.result = call.scoredRecipes,
                 !.paginated = << PaginatedResult(call.recipes, 0, call.limit,
                                                  call.offset) >>]

\* catch (error) { console.error(...); throw error; }, or no catch at all
Rethrow(call, e) ==
    [call EXCEPT !.pc = "done", !.status = "error", !.error = e,
                 !.raised = e]

\* a store operation fails with error e
StoreRejects(c) ==
    /\ calls[c].pc \in AwaitingStore
    /\ calls' = [calls EXCEPT ![c] = Rethrow(calls[c], "StoreError")]
    /\ UNCHANGED <<store, probe, serial, script>>

\* the caller has taken the outcome
Return(c) ==
    /\ calls[c].pc = "done"
    /\ calls' = [calls EXCEPT ![c] = IdleCall]
    /\ UNCHANGED <<store, probe, serial, script>>

Next ==
    \E c \in CallIds :
        \/ \E a \in PantryLists, l \in Limits : FindStart(c, a, l)
        \/ \E a \in PantryLists : FindStart(c, a, DefaultAvailableLimit)
        \/ FindPoolResolved(c)
        \/ \E id \in 1..MaxId, l \in Limits : SimilarStart(c, id, l)
        \/ \E id \in 1..MaxId : SimilarStart(c, id, DefaultSimilarLimit)
        \/ SimilarReferenceResolved(c)
        \/ SimilarQueryResolved(c)
        \/ StoreRejects(c)
        \/ Return(c)

Spec == Init /\ [][Next]_vars

(***************************************************************************)
(* Every operation of the tool set, over the stores whose rows have an     *)
(* author or a description.                                                *)
(***************************************************************************)
SearchBodies ==
    {i \in 1..Len(Bodies) :
        Bodies[i].author # Null \/ Bodies[i].description # Null}

SearchStores == {StoreOf(f) : f \in [1..MaxId -> {0} \cup SearchBodies]}

InitTools ==
    /\ store \in SearchStores
    /\ calls = [c \in CallIds |-> IdleCall]
    /\ probe = NoProbe
    /\ serial = NoSerial
    /\ script = NoScript

DefaultSearchLimit == 10
DefaultSearchOffset == 0

NextTools ==
    \/ Next
    \/ \E c \in CallIds :
        \/ \E o \in SearchOptionSets, l \in Limits, off \in Offsets :
              SearchStart(c, o, l, off)
        \/ \E o \in SearchOptionSets :
              SearchStart(c, o, DefaultSearchLimit, DefaultSearchOffset)
        \/ \E t \in FieldTools, x \in ToolTexts, l \in Limits,
               off \in Offsets : FieldToolStart(c, t, x, l, off)
        \/ \E t \in FieldTools, x \in ToolTexts :
              FieldToolStart(c, t, x, DefaultSearchLimit, DefaultSearchOffset)
        \/ \E q \in {Undefined, Rice}, i \in {Undefined, Oil},
               l \in {<<>>} \cup {<<n>> : n \in Limits},
               off \in {<<>>} \cup {<<n>> : n \in Offsets} :
              SearchToolStart(c, q, Undefined, i, l, off)
        \/ PageQueryResolved(c)
        \/ CountQueryResolved(c)
        \/ \E id \in 1..MaxId : GetByIdStart(c, id)
        \/ \E id \in 1..MaxId : GetByIdToolStart(c, id)
        \/ GetByIdResolved(c)

SpecTools == InitTools /\ [][NextTools]_vars

(***************************************************************************)
(* The scorer alone, over every short ingredients text and list.           *)
(***************************************************************************)
ScoreAlphabet == {"e", "E", "g", ",", ";"}

ScoreTexts == UNION {[1..n -> ScoreAlphabet] : n \in 0..MaxTextLen}

ScoreEntries == { <<>>, <<"e">>, <<"E">>, <<"g">>, <<"e", "g">>, <<",">> }

ScoreLists == UNION {[1..n -> ScoreEntries] : n \in 0..MaxAvail}

InitScore ==
    /\ store = {}
    /\ serial = NoSerial
    /\ script = NoScript
    /\ calls = [c \in CallIds |-> IdleCall]
    /\ \E text \in ScoreTexts, list \in ScoreLists :
          probe = [recipe |-> [id |-> 1, title |-> Rice, category |-> Null,
                               ingredients |-> text],
                   availableIngredients |-> list, scored |-> <<>>]

ScoreStep ==
    /\ probe.scored = <<>>
    /\ probe' = [probe EXCEPT !.scored =
                    <<ScoreRecipe(probe.recipe, probe.availableIngredients)>>]
    /\ UNCHANGED <<store, calls, serial, script>>

NextScore == ScoreStep

SpecScore == InitScore /\ [][NextScore]_vars

(***************************************************************************)
(* serializeWithBigInt alone, over nested values.                          *)
(***************************************************************************)
InitSerialize ==
    /\ store = {}
    /\ calls = [c \in CallIds |-> IdleCall]
    /\ probe = NoProbe
    /\ script = NoScript
    /\ \E v \in JsValues(MaxDepth) :
          serial = [input |-> v, once |-> <<>>, twice |-> <<>>]

\* serializeWithBigInt(input)
SerializeOnce ==
    /\ serial.once = <<>>
    /\ serial' = [serial EXCEPT !.once = <<SerializeWithBigInt(serial.input)>>]
    /\ UNCHANGED <<store, calls, probe, script>>

\* serializeWithBigInt applied to its own output
SerializeTwice ==
    /\ serial.once # <<>>
    /\ serial.twice = <<>>
    /\ serial' = [serial EXCEPT
                     !.twice = <<SerializeWithBigInt(serial.once[1])>>]
    /\ UNCHANGED <<store, calls, probe, script>>

NextSerialize == SerializeOnce \/ SerializeTwice

SpecSerialize == InitSerialize /\ [][NextSerialize]_vars

(***************************************************************************)
(* The scripts alone.                                                      *)
(***************************************************************************)
InitScripts ==
    /\ store = {}
    /\ calls = [c \in CallIds |-> IdleCall]
    /\ probe = NoProbe
    /\ serial = NoSerial
    /\ script = NoScript

\* the script is launched and enters its try block
ScriptStart(name) ==
    /\ script.pc = "idle"
    /\ script' = [NoScript EXCEPT !.name = name, !.pc = "try", !.step = 1]
    /\ UNCHANGED <<store, calls, probe, serial>>

\* the next awaited step is called
StepBegin(n) ==
    /\ script.pc = "try"
    /\ n \in StoreOps(script)
    /\ script' = [script EXCEPT !.pc = "step", !.remaining = n]
    /\ UNCHANGED <<store, calls, probe, serial>>

\* the step issues a store operation and awaits it
OpIssue ==
    /\ script.pc = "step"
    /\ script.remaining > 0
    /\ script' = [script EXCEPT !.pc = "await", !.inflight = @ + 1,
                                !.remaining = @ - 1]
    /\ UNCHANGED <<store, calls, probe, serial>>

\* the awaited store operation returns
OpOk ==
    /\ script.pc = "await"
    /\ script' = [script EXCEPT
          !.pc = "step", !.inflight = @ - 1,
          !.importedCount = IF script.name = "initDb"
                               /\ CurrentStep(script) = "importRecipes"
                            THEN @ + 1 ELSE @]
    /\ UNCHANGED <<store, calls, probe, serial>>

\* the awaited store operation fails
OpFails ==
    /\ script.pc = "await"
    /\ script' = AfterThrow([script EXCEPT !.inflight = @ - 1])
    /\ UNCHANGED <<store, calls, probe, serial>>

\* something else in the step throws (the download, the model call, a test)
StepThrows ==
    /\ script.pc = "step"
    /\ CurrentStep(script) \notin
          {"resetDatabase", "importRecipes", "checkDatabase"}
    /\ script' = AfterThrow(script)
    /\ UNCHANGED <<store, calls, probe, serial>>

\* fetchAndParseCSV returns r records
FetchReturns(r) ==
    /\ script.pc = "step"
    /\ script.name = "initDb"
    /\ CurrentStep(script) = "fetchAndParseCSV"
    /\ script' = [Advance(script) EXCEPT !.records = r]
    /\ UNCHANGED <<store, calls, probe, serial>>

\* the step returns once its store operations are done
StepReturns ==
    /\ script.pc = "step"
    /\ script.remaining = 0
    /\ ~(script.name = "initDb" /\ CurrentStep(script) = "fetchAndParseCSV")
    /\ script' = Advance(script)
    /\ UNCHANGED <<store, calls, probe, serial>>

\* finally: await prisma.$disconnect() / closeConnection()
CloseConnection ==
    /\ script.pc = "finally"
    /\ script' = [script EXCEPT !.pc = "closed", !.closed = TRUE]
    /\ UNCHANGED <<store, calls, probe, serial>>

\* nothing is left to run: the process exits
Exit ==
    /\ script.pc = "closed"
    /\ script' = [script EXCEPT !.pc = "exited"]
    /\ UNCHANGED <<store, calls, probe, serial>>

NextScripts ==
    \/ \E name \in Scripts : ScriptStart(name)
    \/ \E n \in 0..MaxRecords : StepBegin(n)
    \/ OpIssue
    \/ OpOk
    \/ OpFails
    \/ StepThrows
    \/ \E r \in 0..MaxRecords : FetchReturns(r)
    \/ StepReturns
    \/ CloseConnection
    \/ Exit

SpecScripts == InitScripts /\ [][NextScripts]_vars

\* the event loop runs every continuation that is ready, and every awaited
\* operation settles
FairSpecScripts == SpecScripts /\ WF_vars(NextScripts)

(***************************************************************************)
(* Properties.                                                             *)
(***************************************************************************)
FindReturned(c) ==
    calls[c].op = "find" /\ calls[c].pc = "done" /\ calls[c].status = "ok"

SimilarReturned(c) ==
    calls[c].op = "similar" /\ calls[c].pc = "done" /\ calls[c].status = "ok"

ResultIndexes(c) == 1..Len(calls[c].result)

\* the candidate pool: the PoolTake recipes of the store with the highest ids
CandidatePool ==
    {r \in store : Cardinality({o \in store : o.id > r.id}) < PoolTake}

\* needle occurs in text at some offset
OccursIn(needle, text) ==
    \E off \in 0..Len(text) :
        /\ off + Len(needle) <= Len(text)
        /\ \A k \in 1..Len(needle) : text[off + k] = needle[k]

\* number of list entries, duplicates counted, that occur in the text when
\* both are lower-cased
MatchingCount(text, list) ==
    Cardinality({i \in 1..Len(list) :
                    OccursIn(ToLowerCase(list[i]), ToLowerCase(text))})

\* one more than the number of ',' and ';' characters
TokenCount(text) ==
    1 + Cardinality({i \in 1..Len(text) : text[i] \in {",", ";"}})

C2Theorem ==
    \A c \in CallIds :
        FindReturned(c) =>
            \A i, j \in ResultIndexes(c) :
                i < j =>
                    LET a == calls[c].result[i]
                        b == calls[c].result[j]
                    IN /\ a.matchPercentage[1] * b.matchPercentage[2]
                            >= b.matchPercentage[1] * a.matchPercentage[2]
                       /\ (a.matchPercentage[1] * b.matchPercentage[2]
                             = b.matchPercentage[1] * a.matchPercentage[2])
                            => a.id > b.id

\* a returned sequence with a tie and with a lower id ahead of a higher one
C2Witness ==
    \E c \in CallIds :
        /\ FindReturned(c)
        /\ \E i, j \in ResultIndexes(c) :
              /\ i < j
              /\ FracEq(calls[c].result[i].matchPercentage,
                        calls[c].result[j].matchPercentage)
        /\ \E i, j \in ResultIndexes(c) :
              /\ i < j
              /\ calls[c].result[i].id < calls[c].result[j].id

\* the pool recipes that pass the threshold, scored
PassingScored(c) ==
    {s \in {ScoreRecipe(r, calls[c].availableIngredients) : r \in CandidatePool} :
        s.matchPercentage[1] > 50 * s.matchPercentage[2]}

\* C3: for limit >= 0 and a non-empty list the result has min(limit, number of
\* pool recipes scoring above 50) entries, and they are the first entries of
\* the sorted sequence: every passing recipe left out ranks after every
\* returned one.
C3Theorem ==
    \A c \in CallIds :
        (FindReturned(c) /\ calls[c].limit >= 0
            /\ calls[c].availableIngredients # <<>>) =>
            LET passing == PassingScored(c)
                returned == {calls[c].result[i] : i \in ResultIndexes(c)}
                n == Cardinality(passing)
            IN /\ Len(calls[c].result)
                    = (IF calls[c].limit < n THEN calls[c].limit ELSE n)
               /\ Cardinality(returned) = Len(calls[c].result)
               /\ returned \subseteq passing
               /\ \A p \in passing \ returned, e \in returned :
                     \/ FracLess(p.matchPercentage, e.matchPercentage)
                     \/ /\ FracEq(p.matchPercentage, e.matchPercentage)
                        /\ p.id < e.id

\* the limit cut the result, and a left-out recipe has a higher id than a
\* returned one
C3Witness ==
    \E c \in CallIds :
        /\ FindReturned(c)
        /\ calls[c].limit >= 1
        /\ Len(calls[c].result) = calls[c].limit
        /\ Cardinality(PassingScored(c)) > calls[c].limit
        /\ \E p \in PassingScored(c), i \in ResultIndexes(c) :
              /\ \A j \in ResultIndexes(c) : calls[c].result[j].id # p.id
              /\ p.id > calls[c].result[i].id

\* C4: for every limit <= 0 findRecipesByAvailableIngredients returns the
\* empty sequence and raises no error of its own (a failure of the store is
\* the only error it passes on).
C4Claim ==
    \A c \in CallIds :
        (calls[c].op = "find" /\ calls[c].pc = "done" /\ calls[c].limit <= 0) =>
            /\ calls[c].status = "ok" => calls[c].result = <<>>
            /\ calls[c].status = "error" => calls[c].error = "StoreError"

\* C5: matchingCount is the number of list entries (duplicates counted) whose
\* lower-cased form occurs in the lower-cased text, totalCount is one more
\* than the number of ',' and ';', matchPercentage = 100 * matchingCount /
\* totalCount, missingIngredientsCount = totalCount - matchingCount, and
\* changing the letter case of the text or of the list changes neither.
C5Theorem ==
    probe.scored # <<>> =>
        LET out == probe.scored[1]
            text == probe.recipe.ingredients
            list == probe.availableIngredients
            m == MatchingCount(text, list)
            t == TokenCount(text)
            upperText == ScoreRecipe(
                [probe.recipe EXCEPT !.ingredients = ToUpperCase(text)], list)
            lowerText == ScoreRecipe(
                [probe.recipe EXCEPT !.ingredients = ToLowerCase(text)], list)
            upperList == ScoreRecipe(probe.recipe,
                [i \in 1..Len(list) |-> ToUpperCase(list[i])])
            lowerList == ScoreRecipe(probe.recipe,
                [i \in 1..Len(list) |-> ToLowerCase(list[i])])
        IN /\ out.matchPercentage = <<100 * m, t>>
           /\ out.missingIngredientsCount = t - m
           /\ \A v \in {upperText, lowerText, upperList, lowerList} :
                 /\ v.matchPercentage = out.matchPercentage
                 /\ v.missingIngredientsCount = out.missingIngredientsCount

\* a scored text with an upper-case letter and two separators, against a list
\* holding the same entry twice in lower case, both matching
C5Witness ==
    /\ probe.scored # <<>>
    /\ \E i \in 1..Len(probe.recipe.ingredients) :
          probe.recipe.ingredients[i] = "E"
    /\ TokenCount(probe.recipe.ingredients) = 3
    /\ probe.availableIngredients = << <<"e">>, <<"e">> >>
    /\ probe.scored[1].matchPercentage = <<200, 3>>
    /\ ~OccursIn(<<"e">>, probe.recipe.ingredients)

\* C6 as stated: every match result has 0 <= matchPercentage <= 100 and
\* missingIngredientsCount >= 0.
C6Claim ==
    probe.scored # <<>> =>
        LET out == probe.scored[1]
        IN /\ out.matchPercentage[1] >= 0
           /\ out.matchPercentage[1] <= 100 * out.matchPercentage[2]
           /\ out.missingIngredientsCount >= 0

\* C6 amended: matchPercentage >= 0, matchPercentage <= 100 * (length of the
\* list) / totalCount and missingIngredientsCount >= totalCount - (length of
\* the list); so both bounds of the claim hold when the list is no longer
\* than the recipe's token count.
C6Theorem ==
    probe.scored # <<>> =>
        LET out == probe.scored[1]
            n == Len(probe.availableIngredients)
            t == TokenCount(probe.recipe.ingredients)
        IN /\ out.matchPercentage[1] >= 0
           /\ out.matchPercentage[2] > 0
           /\ out.matchPercentage[1] * t <= 100 * n * out.matchPercentage[2]
           /\ out.missingIngredientsCount >= t - n
           /\ n <= t =>
                 /\ out.matchPercentage[1] <= 100 * out.matchPercentage[2]
                 /\ out.missingIngredientsCount >= 0

\* a list exactly as long as the token count, every entry matching
C6Witness ==
    /\ probe.scored # <<>>
    /\ Len(probe.availableIngredients) = 2
    /\ TokenCount(probe.recipe.ingredients) = 2
    /\ probe.scored[1].matchPercentage = <<200, 2>>
    /\ probe.scored[1].missingIngredientsCount = 0

\* C7: with an empty availableIngredients list the call returns the empty
\* sequence at once: it is never waiting on the store, it issues no store
\* query, scores no recipe and raises no error, whatever the limit.
C7Theorem ==
    \A c \in CallIds :
        (calls[c].op = "find" /\ calls[c].availableIngredients = <<>>) =>
            /\ calls[c].pc = "done"
            /\ calls[c].status = "ok"
            /\ calls[c].result = <<>>
            /\ calls[c].queries = <<>>
            /\ calls[c].resolved = 0
            /\ calls[c].scoredRecipes = <<>>

\* an empty list was passed with a positive limit against a store holding a
\* recipe
C7Witness ==
    \E c \in CallIds :
        /\ calls[c].op = "find"
        /\ calls[c].availableIngredients = <<>>
        /\ calls[c].pc = "done"
        /\ calls[c].limit >= 1
        /\ store # {}

\* C8: scoring never divides by zero: totalCount >= 1 for every recipe, the
\* empty ingredients text included, so matchPercentage is finite and >= 0.
C8Theorem ==
    probe.scored # <<>> =>
        /\ TotalIngredients(probe.recipe) >= 1
        /\ probe.scored[1].matchPercentage[2] >= 1
        /\ probe.scored[1].matchPercentage[1] >= 0

\* the empty ingredients text was scored against a non-empty list
C8Witness ==
    /\ probe.scored # <<>>
    /\ probe.recipe.ingredients = <<>>
    /\ probe.availableIngredients # <<>>
    /\ probe.scored[1].matchPercentage[2] = 1

C10Theorem ==
    \A c \in CallIds :
        (calls[c].op = "similar"
            /\ ~\E r \in store : r.id = calls[c].recipeId) =>
            /\ calls[c].status # "ok"
            /\ calls[c].queries = <<"findUnique">>
            /\ calls[c].result = <<>>
            /\ calls[c].resolved >= 1 =>
                  /\ calls[c].pc = "done"
                  /\ calls[c].status = "error"
                  /\ calls[c].error = "NotFound"

\* findUnique answered null and the call ended with the not-found error
C10Witness ==
    \E c \in CallIds :
        /\ calls[c].op = "similar"
        /\ ~\E r \in store : r.id = calls[c].recipeId
        /\ store # {}
        /\ calls[c].resolved = 1
        /\ calls[c].error = "NotFound"

\* the call has built and issued the similarity query
SimilarQueryIssued(c) ==
    calls[c].op = "similar" /\ calls[c].queries = <<"findUnique", "findMany">>

\* the where clause of that query
IssuedSimilarWhere(c) == SimilarWhere(calls[c].recipeId, calls[c].keywords)

StatedKeywords(row) ==
    SplitWhitespace(row.title)
    \o (IF Truthy(row.category) THEN <<row.category>> ELSE <<>>)
    \o ExtractKeyIngredients(row.ingredients)

\* the similarity predicate of the specification, in its strictest reading:
\* another recipe in which every keyword occurs, with its case, in the title,
\* the category or the ingredients
StatedSimilar(r, ref) ==
    /\ r.id # ref.id
    /\ \A k \in 1..Len(StatedKeywords(ref)) :
          \E f \in {"title", "category", "ingredients"} :
              r[f] # Null /\ OccursIn(StatedKeywords(ref)[k], r[f])

\* C12 (as stated): for a limit >= 0 (5 when omitted) getSimilarRecipes returns
\* at most limit recipes, in strictly decreasing id order, and they are the
\* limit highest-id recipes among those satisfying the similarity predicate.
C12Claim ==
    \A c \in CallIds :
        (SimilarReturned(c) /\ calls[c].limit >= 0) =>
            LET result == calls[c].result
                similar == {r \in store : StatedSimilar(r, calls[c].recipe[1])}
            IN /\ Len(result) <= calls[c].limit
               /\ \A i \in 1..(Len(result) - 1) : result[i].id > result[i + 1].id
               /\ {result[i] : i \in 1..Len(result)} =
                     {r \in similar :
                         Cardinality({o \in similar : o.id > r.id})
                             < calls[c].limit}

\* C20 (as stated): the keyword list getSimilarRecipes builds from the
\* reference recipe is, in order and with duplicates kept, the whitespace-split
\* words of its title, then its category if present, then its key ingredients;
\* so it has at most (title word count + 1 + 5) entries.
C20Claim ==
    \A c \in CallIds :
        (calls[c].op = "similar" /\ calls[c].recipe # <<>>) =>
            LET row == calls[c].recipe[1]
            IN /\ calls[c].keywords = StatedKeywords(row)
               /\ Len(calls[c].keywords) <=
                     Len(SplitWhitespace(row.title)) + 1 + KeyIngredientMax

SearchReturned(c) ==
    calls[c].op = "search" /\ calls[c].pc = "done" /\ calls[c].status = "ok"

\* the column is a text in which x occurs, letters compared without case
ContainsText(col, x) ==
    col # Null /\ OccursIn(ToLowerCase(x), ToLowerCase(col))

\* recipe r meets every criterion the options supply
Satisfies(r, options) ==
    /\ Truthy(options.searchTerm) =>
          \E f \in {"title", "description", "ingredients"} :
              ContainsText(r[f], options.searchTerm)
    /\ Truthy(options.title) => ContainsText(r.title, options.title)
    /\ options.ingredients # <<>> =>
          \A i \in 1..Len(options.ingredients[1]) :
              ContainsText(r.ingredients, options.ingredients[1][i])
    /\ Truthy(options.category) => ContainsText(r.category, options.category)
    /\ Truthy(options.author) => ContainsText(r.author, options.author)
    /\ options.minRating # <<>> =>
          r.rating # <<>> /\ r.rating[1] >= options.minRating[1]
    /\ Truthy(options.maxCookTime) =>
          r.cookTime # Null /\ TextLte(r.cookTime, options.maxCookTime)

\* the recipes of the store that meet the criteria of call c
MatchingSet(c) == {r \in store : Satisfies(r, calls[c].options)}

\* C16: for limit >= 1 and offset >= 0 a result of searchRecipes has
\* data = the matching recipes at positions offset .. offset+limit-1 of the
\* matching set in descending id order, total = the size of the matching set,
\* pageSize = limit, page = floor(offset/limit) + 1 and
\* totalPages = ceil(total/limit).
C16Theorem ==
    \A c \in CallIds :
        (SearchReturned(c) /\ calls[c].limit >= 1 /\ calls[c].offset >= 0) =>
            LET out == calls[c].paginated[1]
                limit == calls[c].limit
                offset == calls[c].offset
                matching == MatchingSet(c)
                n == Cardinality(matching)
                rest == IF n > offset THEN n - offset ELSE 0
            IN /\ Len(out.data) = (IF rest < limit THEN rest ELSE limit)
               /\ \A i \in 1..Len(out.data) :
                     /\ out.data[i] \in matching
                     /\ Cardinality({o \in matching : o.id > out.data[i].id})
                            = offset + i - 1
               /\ out.total = n
               /\ out.pageSize = limit
               /\ out.page.kind = "int"
               /\ (out.page.value - 1) * limit <= offset
               /\ offset < out.page.value * limit
               /\ out.totalPages.kind = "int"
               /\ (out.totalPages.value - 1) * limit < n
               /\ n <= out.totalPages.value * limit

\* a page that starts inside the matching set at an offset that is not a
\* multiple of the limit, and that the limit cuts short
C16Witness ==
    \E c \in CallIds :
        /\ SearchReturned(c)
        /\ calls[c].limit = 2
        /\ calls[c].offset = 1
        /\ calls[c].options.searchTerm = Rice
        /\ calls[c].paginated[1].total = 3
        /\ Len(calls[c].paginated[1].data) = 2
        /\ calls[c].paginated[1].page = Number(1)
        /\ calls[c].paginated[1].totalPages = Number(2)

\* C17: every recipe searchRecipes returns meets all the supplied criteria at
\* once (ingredients contain every listed string, title / category / author
\* contain the given text, rating >= minRating, searchTerm in title,
\* description or ingredients), and a criterion that is omitted restricts
\* nothing: the recipes counted are all those meeting the supplied criteria.
C17Theorem ==
    \A c \in CallIds :
        SearchReturned(c) =>
            LET out == calls[c].paginated[1]
            IN /\ \A i \in 1..Len(out.data) :
                     Satisfies(out.data[i], calls[c].options)
               /\ out.total = Cardinality(MatchingSet(c))
               /\ calls[c].options = NoOptions =>
                     out.total = Cardinality(store)

\* a search with three criteria returned a recipe while the store holds
\* recipes that fail one criterion only
C17Witness ==
    \E c \in CallIds :
        /\ SearchReturned(c)
        /\ Truthy(calls[c].options.title)
        /\ calls[c].options.minRating # <<>>
        /\ calls[c].options.ingredients # <<>>
        /\ Len(calls[c].paginated[1].data) = 1
        /\ \E r \in store :
              /\ ~Satisfies(r, calls[c].options)
              /\ Satisfies(r, [calls[c].options EXCEPT !.minRating = <<>>])

\* the options the function of the same name passes to searchRecipes
OptionsOfTool(tool, text) ==
    CASE tool = "titleTool" -> TitleOptions(text)
      [] tool = "ingredientTool" -> IngredientOptions(text)
      [] tool = "categoryTool" -> CategoryOptions(text)

\* what searchRecipes returns on store S when no store operation fails
SearchRecipesResult(S, options, limit, offset) ==
    PaginatedResult(FindManySkip(S, SearchWhere(options), limit, offset),
                    Count(S, SearchWhere(options)), limit, offset)

\* C19 (as stated): against the same store and with the same argument, limit
\* and offset, each by-field tool returns the paginated result of the function
\* of the same name, and filters on a field of the Recipe schema.
C19Claim ==
    \A c \in CallIds :
        (calls[c].op \in FieldTools /\ calls[c].pc = "done"
            /\ calls[c].raised = "none") =>
            /\ calls[c].where.field \in SchemaFields
            /\ calls[c].status = "ok"
            /\ calls[c].paginated =
                  << SearchRecipesResult(store,
                        OptionsOfTool(calls[c].op, calls[c].where.value),
                        calls[c].limit, calls[c].offset) >>

\* C14: when a store operation fails inside searchRecipes, getRecipeById,
\* getSimilarRecipes or findRecipesByAvailableIngredients, the call ends with
\* that same error, returns no result (not even the rows an earlier query of
\* the call fetched), and issues nothing more: the failed operation is the
\* last one issued and no operation is issued twice in a call.
C14Theorem ==
    \A c \in CallIds :
        calls[c].op \in {"search", "getById", "similar", "find"} =>
            /\ \A i, j \in 1..Len(calls[c].queries) :
                  calls[c].queries[i] = calls[c].queries[j] => i = j
            /\ calls[c].raised # "none" =>
                  /\ calls[c].pc = "done"
                  /\ calls[c].status = "error"
                  /\ calls[c].error = calls[c].raised
                  /\ calls[c].result = <<>>
                  /\ calls[c].paginated = <<>>
                  /\ Len(calls[c].queries) = calls[c].resolved + 1

\* the count query of a searchRecipes call failed after its page query had
\* returned rows
C14Witness ==
    \E c \in CallIds :
        /\ calls[c].op = "search"
        /\ calls[c].raised = "StoreError"
        /\ calls[c].queries = <<"findMany", "count">>
        /\ calls[c].recipes # <<>>
        /\ calls[c].error = "StoreError"

\* the value of a string of decimal digits
RECURSIVE NumeralValue(_)
NumeralValue(digits) ==
    IF digits = <<>> THEN 0
    ELSE NumeralValue(SubSeq(digits, 1, Len(digits) - 1)) * 10
         + (CharCode(digits[Len(digits)]) - 1)

\* text is the decimal numeral of the integer n: an optional minus sign, then
\* digits without a leading zero
IsDecimalOf(text, n) ==
    LET digits == IF n < 0 THEN Tail(text) ELSE text
    IN /\ text # <<>>
       /\ n < 0 => text[1] = "-"
       /\ digits # <<>>
       /\ \A i \in 1..Len(digits) : \E d \in 1..Len(Digits) : digits[i] = Digits[d]
       /\ Len(digits) > 1 => digits[1] # "0"
       /\ NumeralValue(digits) = (IF n < 0 THEN 0 - n ELSE n)

\* out has the shape of in, with each bigint replaced by its decimal numeral
\* and everything else kept
RECURSIVE Conforms(_, _)
Conforms(in, out) ==
    CASE in.t = "bigint" -> out.t = "string" /\ IsDecimalOf(out.str, in.big)
      [] in.t = "array" ->
            /\ out.t = "array"
            /\ Len(out.items) = Len(in.items)
            /\ \A i \in 1..Len(in.items) : Conforms(in.items[i], out.items[i])
      [] in.t = "object" ->
            /\ out.t = "object"
            /\ out.keys = in.keys
            /\ Len(out.vals) = Len(in.vals)
            /\ \A i \in 1..Len(in.vals) : Conforms(in.vals[i], out.vals[i])
      [] OTHER -> out = in

RECURSIVE HasBigInt(_)
HasBigInt(v) ==
    CASE v.t = "bigint" -> TRUE
      [] v.t = "array" -> \E i \in 1..Len(v.items) : HasBigInt(v.items[i])
      [] v.t = "object" -> \E i \in 1..Len(v.vals) : HasBigInt(v.vals[i])
      [] OTHER -> FALSE

\* C15: serializeWithBigInt returns a value of the same shape as its input
\* (same keys, same array lengths and order, null and undefined kept) in which
\* every bigint at any depth is replaced by its decimal string and every other
\* primitive is unchanged; the output holds no bigint, and applying the
\* function to its output changes nothing.
C15Theorem ==
    serial.once # <<>> =>
        /\ Conforms(serial.input, serial.once[1])
        /\ ~HasBigInt(serial.once[1])
        /\ serial.twice # <<>> => serial.twice[1] = serial.once[1]

\* an object with a bigint id and, inside an array, undefined and a negative
\* bigint, serialized twice
C15Witness ==
    /\ serial.input =
          JsObject(<<"id", "rows">>,
                   << JsBigInt(12),
                      JsArray(<< JsUndefined, JsBigInt(0 - 30) >>) >>)
    /\ serial.once =
          << JsObject(<<"id", "rows">>,
                      << JsString(<<"1", "2">>),
                         JsArray(<< JsUndefined,
                                    JsString(<<"-", "3", "0">>) >>) >>) >>
    /\ serial.twice = serial.once

TokenAlphabet == {" ", "e", ",", ";"}

TokenTexts == UNION {[1..n -> TokenAlphabet] : n \in 0..MaxTokenLen}

TokenLists == { << <<"e">> >>, << <<>> >> }

InitTokenize ==
    /\ store = {}
    /\ serial = NoSerial
    /\ script = NoScript
    /\ calls = [c \in CallIds |-> IdleCall]
    /\ \E text \in TokenTexts, list \in TokenLists :
          probe = [recipe |-> [id |-> 1, title |-> Rice, category |-> Null,
                               ingredients |-> text],
                   availableIngredients |-> list, scored |-> <<>>,
                   keyIngredients |-> <<>>]

\* extractKeyIngredients(recipe.ingredients); keyIngredients is <<>> before
\* the call and <<list>> after it
ExtractStep ==
    /\ probe.keyIngredients = <<>>
    /\ probe' = [probe EXCEPT !.keyIngredients =
                    <<ExtractKeyIngredients(probe.recipe.ingredients)>>]
    /\ UNCHANGED <<store, calls, serial, script>>

NextTokenize == ScoreStep \/ ExtractStep

SpecTokenize == InitTokenize /\ [][NextTokenize]_vars

\* the text is empty or holds only whitespace
IsBlank(text) == \A i \in 1..Len(text) : IsWhitespace(text[i])

\* C21 as stated: for an empty or whitespace-only ingredients text the
\* scorer counts 0 pieces and extractKeyIngredients returns no key
\* ingredient.
C21Claim ==
    IsBlank(probe.recipe.ingredients) =>
        /\ probe.scored # <<>> => probe.scored[1].matchPercentage[2] = 0
        /\ probe.keyIngredients # <<>> => probe.keyIngredients[1] = <<>>

\* C21 amended: for an empty or whitespace-only ingredients text the scorer
\* counts exactly one piece (the denominator of matchPercentage is 1 and
\* missingIngredientsCount is 1 minus the number of matching entries), and
\* extractKeyIngredients returns no key ingredient.
C21Theorem ==
    IsBlank(probe.recipe.ingredients) =>
        /\ probe.scored # <<>> =>
              /\ probe.scored[1].matchPercentage[2] = 1
              /\ probe.scored[1].missingIngredientsCount =
                    1 - MatchingCount(probe.recipe.ingredients,
                                      probe.availableIngredients)
        /\ probe.keyIngredients # <<>> => probe.keyIngredients[1] = <<>>

\* a text of four blanks, longer than the key-ingredient minimum, was both
\* scored and searched for key ingredients
C21Witness ==
    /\ probe.recipe.ingredients = <<" ", " ", " ", " ">>
    /\ probe.scored # <<>>
    /\ probe.scored[1].matchPercentage[2] = 1
    /\ probe.keyIngredients = << <<>> >>

\* C22: missingIngredientsCount is the raw difference totalCount -
\* matchingCount; matchingCount never exceeds the length of the list;
\* missingIngredientsCount is negative exactly when matchingCount >
\* totalCount, which needs a list longer than totalCount; such a recipe
\* scores above 100, passes the filter and is in the result whenever the
\* limit does not cut the passing recipes.
C22Theorem ==
    \A c \in CallIds :
        (FindReturned(c) /\ calls[c].availableIngredients # <<>>) =>
            LET list == calls[c].availableIngredients
                returned == {calls[c].result[i] : i \in ResultIndexes(c)}
            IN \A k \in 1..Len(calls[c].scoredRecipes) :
                  LET s == calls[c].scoredRecipes[k]
                      total == TokenCount(s.ingredients)
                      matching == MatchingCount(s.ingredients, list)
                  IN /\ s.matchPercentage = <<100 * matching, total>>
                     /\ s.missingIngredientsCount = total - matching
                     /\ matching <= Len(list)
                     /\ s.missingIngredientsCount < 0 <=> matching > total
                     /\ s.missingIngredientsCount < 0 =>
                           /\ Len(list) > total
                           /\ s.matchPercentage[1] > 100 * s.matchPercentage[2]
                           /\ s \in PassingScored(c)
                           /\ calls[c].limit >= Cardinality(PassingScored(c))
                                 => s \in returned

\* a returned recipe has a negative missingIngredientsCount: one token, two
\* matching entries
C22Witness ==
    \E c \in CallIds :
        /\ FindReturned(c)
        /\ \E i \in ResultIndexes(c) :
              /\ calls[c].result[i].missingIngredientsCount = 0 - 1
              /\ calls[c].result[i].matchPercentage = <<200, 1>>
              /\ Len(calls[c].availableIngredients) = 2

(***************************************************************************)
(* findRecipesByAvailableIngredients against a store larger than the pool  *)
(* query's take: the PoolExcess lowest ids fall outside the pool.          *)
(***************************************************************************)
\* bodies of the recipes with the lowest ids and of the recipe with the
\* highest id ('rice' or 'egg,oil'); every other recipe is 'egg,oil', which no
\* pantry list scores above 50
PoolEdgeBodies == {Bodies[1], Bodies[5]}

PoolFiller == Bodies[5]

PoolStoreOf(low, top) ==
    {MakeRecipe(i, IF i <= PoolExcess THEN low[i]
                   ELSE IF i = PoolTake + PoolExcess THEN top
                   ELSE PoolFiller) :
        i \in 1..(PoolTake + PoolExcess)}

InitPool ==
    /\ \E low \in [1..PoolExcess -> PoolEdgeBodies], top \in PoolEdgeBodies :
          store = PoolStoreOf(low, top)
    /\ calls = [c \in CallIds |-> IdleCall]
    /\ probe = NoProbe
    /\ serial = NoSerial
    /\ script = NoScript

NextPool ==
    \E c \in CallIds :
        \/ \E availableIngredients \in PantryLists, limit \in Limits :
              FindStart(c, availableIngredients, limit)
        \/ FindPoolResolved(c)
        \/ StoreRejects(c)
        \/ Return(c)

SpecPool == InitPool /\ [][NextPool]_vars

\* C23: the call scores exactly the PoolTake recipes with the highest ids (all
\* of them in a smaller store), in descending id order; every returned recipe
\* is one of them, and a stored recipe with a lower id than the last scored
\* one is never returned, whatever it would score.
C23Theorem ==
    \A c \in CallIds :
        (FindReturned(c) /\ calls[c].availableIngredients # <<>>) =>
            LET scored == calls[c].scoredRecipes
                n == Len(scored)
                size == Cardinality(store)
            IN /\ n = (IF size < PoolTake THEN size ELSE PoolTake)
               /\ \A k \in 1..(n - 1) : scored[k].id > scored[k + 1].id
               /\ n > 0 =>
                     Cardinality({o \in store : o.id > scored[n].id}) = n - 1
               /\ \A i \in ResultIndexes(c) :
                     /\ Cardinality({o \in store :
                                        o.id > calls[c].result[i].id}) < PoolTake
                     /\ \E k \in 1..n : scored[k] = calls[c].result[i]
               /\ \A r \in store :
                     (n > 0 /\ r.id < scored[n].id) =>
                        \A i \in ResultIndexes(c) :
                            calls[c].result[i].id # r.id

\* the store holds more than PoolTake recipes; recipe 1 is outside the pool
\* and would score 100, yet it is not in the result, which the limit did not
\* cut
C23Witness ==
    \E c \in CallIds :
        /\ FindReturned(c)
        /\ Cardinality(store) > PoolTake
        /\ \E r \in store :
              /\ r.id = 1
              /\ PassesThreshold(ScoreRecipe(r, calls[c].availableIngredients))
              /\ \A i \in ResultIndexes(c) : calls[c].result[i].id # r.id
        /\ Len(calls[c].result) = 1
        /\ calls[c].limit = 2

\* the fields scoring adds to a row
ScoreFields == {"matchPercentage", "missingIngredientsCount"}

\* returned is the stored row with the id of returned, every stored field
\* with its stored value, and with exactly the fields of added besides
CarriesStoredRow(returned, added) ==
    \E r \in store :
        /\ r.id = returned.id
        /\ DOMAIN returned = DOMAIN r \cup added
        /\ \A f \in DOMAIN r : returned[f] = r[f]

\* C24: no step of findRecipesByAvailableIngredients or getSimilarRecipes
\* changes the store; every recipe returned by the first is a stored row
\* with every stored field unchanged plus matchPercentage and
\* missingIngredientsCount, and every recipe returned by the second is a
\* stored row as it is.
C24Theorem ==
    /\ [][store' = store]_vars
    /\ [](\A c \in CallIds :
            /\ FindReturned(c) =>
                  \A i \in ResultIndexes(c) :
                      CarriesStoredRow(calls[c].result[i], ScoreFields)
            /\ SimilarReturned(c) =>
                  \A i \in ResultIndexes(c) :
                      CarriesStoredRow(calls[c].result[i], {}))

\* a returned recipe carries its author, rating and cook time as stored
C24Witness ==
    \E c \in CallIds :
        /\ FindReturned(c)
        /\ \E i \in ResultIndexes(c), r \in store :
              /\ r.id = calls[c].result[i].id
              /\ r.author = Egg
              /\ calls[c].result[i].author = Egg
              /\ calls[c].result[i].rating = <<5>>
              /\ calls[c].result[i].cookTime = Five
              /\ calls[c].result[i].matchPercentage = <<200, 2>>

(***************************************************************************)
(* Two invocations of findRecipesByAvailableIngredients and                *)
(* getSimilarRecipes in flight at once on the one prisma client, each an   *)
(* async function that yields at its awaits.                               *)
(***************************************************************************)
ConcurrentCallIds == {1, 2}

ConcurrentLists == { <<Rice, EggUpper>>, <<EggUpper, Oil>> }

ConcurrentStores == {StoreOf(f) : f \in [1..MaxId -> {0, 2, 5}]}

InitConcurrent ==
    /\ store \in ConcurrentStores
    /\ calls = [c \in ConcurrentCallIds |-> IdleCall]
    /\ probe = NoProbe
    /\ serial = NoSerial
    /\ script = NoScript

NextConcurrent ==
    \E c \in ConcurrentCallIds :
        \/ \E a \in ConcurrentLists, l \in 1..MaxLimit : FindStart(c, a, l)
        \/ FindPoolResolved(c)
        \/ \E id \in 1..MaxId, l \in 1..MaxLimit : SimilarStart(c, id, l)
        \/ SimilarReferenceResolved(c)
        \/ SimilarQueryResolved(c)
        \/ StoreRejects(c)
        \/ Return(c)

SpecConcurrent == InitConcurrent /\ [][NextConcurrent]_vars

\* the outcome of findRecipesByAvailableIngredients run alone on store S with
\* the store answering
AloneFind(S, availableIngredients, limit) ==
    LET recipes == FindMany(S, WhereAll, PoolTake)
        scoredRecipes ==
            [i \in 1..Len(recipes) |->
                ScoreRecipe(recipes[i], availableIngredients)]
    IN IF availableIngredients = <<>>
       THEN [status |-> "ok", error |-> "none", scoredRecipes |-> <<>>,
             result |-> <<>>]
       ELSE [status |-> "ok", error |-> "none",
             scoredRecipes |-> scoredRecipes,
             result |-> RankRecipes(scoredRecipes, limit)]

\* the outcome of getSimilarRecipes run alone on store S with the store
\* answering
AloneSimilar(S, recipeId, limit) ==
    LET recipe == FindUnique(S, recipeId)
        keywords == Keywords(recipe)
        where == SimilarWhere(recipeId, keywords)
    IN IF recipe = <<>>
       THEN [status |-> "error", error |-> "NotFound", keywords |-> <<>>,
             result |-> <<>>]
       ELSE IF ~ValidWhere(where)
       THEN [status |-> "error", error |-> "ValidationError",
             keywords |-> keywords, result |-> <<>>]
       ELSE [status |-> "ok", error |-> "none", keywords |-> keywords,
             result |-> FindMany(S, where, limit)]

\* C25: with two invocations interleaved at their store round-trips on an
\* unchanged store, every invocation the store did not fail ends with the
\* status, error and result it has when run alone on its own arguments, and
\* the scores and keywords it holds are those of its own arguments.
C25Theorem ==
    \A c \in ConcurrentCallIds :
        LET call == calls[c]
            find == AloneFind(store, call.availableIngredients, call.limit)
            similar == AloneSimilar(store, call.recipeId, call.limit)
        IN /\ (call.op = "find" /\ call.pc = "done"
                  /\ call.error # "StoreError") =>
                 /\ call.status = find.status
                 /\ call.error = find.error
                 /\ call.scoredRecipes = find.scoredRecipes
                 /\ call.result = find.result
           /\ (call.op = "similar" /\ call.pc = "awaitSimilar") =>
                 call.keywords = similar.keywords
           /\ (call.op = "similar" /\ call.pc = "done"
                  /\ call.error # "StoreError") =>
                 /\ call.status = similar.status
                 /\ call.error = similar.error
                 /\ call.keywords = similar.keywords
                 /\ call.result = similar.result

\* invocation 1 is between its two round-trips, holding its keywords, while
\* invocation 2 has returned a scored recipe, and invocation 1 would return
\* another result for the list of invocation 2
C25Witness ==
    /\ calls[1].op = "similar"
    /\ calls[1].pc = "awaitSimilar"
    /\ calls[1].keywords # <<>>
    /\ calls[2].op = "find"
    /\ calls[2].pc = "done"
    /\ calls[2].status = "ok"
    /\ calls[2].availableIngredients = <<EggUpper, Oil>>
    /\ Len(calls[2].result) = 1
    /\ AloneFind(store, <<Rice, EggUpper>>, calls[2].limit).result
          # calls[2].result

\* the highest-id recipes other than the reference, up to the limit
OthersByIdDesc(c) ==
    {r \in store :
        /\ r.id # calls[c].recipeId
        /\ Cardinality({o \in store : o.id # calls[c].recipeId /\ o.id > r.id})
              < calls[c].limit}

ImportFinished ==
    /\ script.name = "initDb"
    /\ script.step > 0
    /\ CurrentStep(script) = "checkDatabase"

\* C27 as stated: a failed create is counted and every later record is still
\* attempted, so when importRecipes finishes importedCount + errorCount is the
\* number of input records.
C27Claim ==
    ImportFinished =>
        script.importedCount + script.errorCount = script.records

\* the stored row with the given id, as a list of at most one row
StoredWithId(id) ==
    IF \E r \in store : r.id = id
    THEN << CHOOSE r \in store : r.id = id >>
    ELSE <<>>

\* C28: unless the store fails, getRecipeById ends without error and
\* returns null when no recipe has the id and the stored recipe otherwise;
\* getRecipeByIdTool throws a not-found error in the first case and returns
\* the stored recipe, field by field, in the second.
C28Theorem ==
    \A c \in CallIds :
        LET call == calls[c]
            row == StoredWithId(call.recipeId)
        IN /\ (call.op = "getById" /\ call.pc = "done"
                  /\ call.error # "StoreError") =>
                 /\ call.status = "ok"
                 /\ call.error = "none"
                 /\ call.recipe = row
           /\ (call.op = "getByIdTool" /\ call.pc = "done"
                  /\ call.error # "StoreError") =>
                 IF row = <<>>
                 THEN /\ call.status = "error"
                      /\ call.error = "NotFound"
                      /\ call.result = <<>>
                 ELSE /\ call.status = "ok"
                      /\ call.error = "none"
                      /\ Len(call.result) = 1
                      /\ DOMAIN call.result[1] = DOMAIN row[1]
                      /\ \A f \in DOMAIN row[1] : call.result[1][f] = row[1][f]

\* the tool was called with an id no recipe of a non-empty store has, and
\* threw not-found
C28Witness ==
    \E c \in CallIds :
        /\ calls[c].op = "getByIdTool"
        /\ calls[c].pc = "done"
        /\ calls[c].error = "NotFound"
        /\ store # {}
        /\ \A r \in store : r.id # calls[c].recipeId

(***************************************************************************)
(* searchRecipes while initDb, another process on the same database file,  *)
(* deletes and creates recipes.                                            *)
(***************************************************************************)
SharedStores == {StoreOf(f) : f \in [1..MaxId -> {0, 2, 4}]}

SharedOptionSets == {NoOptions, TitleOptions(Oil)}

InitShared ==
    /\ store \in SharedStores
    /\ calls = [c \in CallIds |-> IdleCall]
    /\ probe = NoProbe
    /\ serial = NoSerial
    /\ script = NoScript

\* resetDatabase: prisma.recipe.deleteMany({})
ResetDatabase ==
    /\ store # {}
    /\ store' = {}
    /\ UNCHANGED <<calls, probe, serial, script>>

\* importRecipes: one prisma.recipe.create; the new row gets an id above
\* every id of the table
CreateRecipe(body) ==
    LET id == 1 + Cardinality({i \in 1..MaxId : \E r \in store : r.id >= i})
    IN /\ id <= MaxId
       /\ store' = store \cup {MakeRecipe(id, body)}
       /\ UNCHANGED <<calls, probe, serial, script>>

NextShared ==
    \/ \E c \in CallIds :
          \/ \E o \in SharedOptionSets, l \in 0..MaxLimit, off \in Offsets :
                SearchStart(c, o, l, off)
          \/ PageQueryResolved(c)
          \/ CountQueryResolved(c)
          \/ StoreRejects(c)
          \/ Return(c)
    \/ ResetDatabase
    \/ \E body \in {Bodies[2], Bodies[4]} : CreateRecipe(body)

SpecShared == InitShared /\ [][NextShared]_vars

\* C29 as stated: in every result of searchRecipes, data.length <= total and
\* data.length = min(limit, max(0, total - offset)), even when another process
\* inserts or deletes recipes between the page query and the count query.
C29Claim ==
    \A c \in CallIds :
        SearchReturned(c) =>
            LET out == calls[c].paginated[1]
                rest == IF out.total > calls[c].offset
                        THEN out.total - calls[c].offset ELSE 0
            IN /\ Len(out.data) <= out.total
               /\ Len(out.data)
                     = (IF rest < calls[c].limit THEN rest ELSE calls[c].limit)

\* a paginated result was returned by searchRecipes, searchRecipesTool or a
\* by-field tool
PaginatedReturned(c) ==
    /\ calls[c].op \in {"search", "searchTool"} \cup FieldTools
    /\ calls[c].pc = "done"
    /\ calls[c].status = "ok"

\* C30 as stated: every paginated result has pageSize >= 1, an integer
\* page >= 1 and a finite integer totalPages >= 0, for every limit and offset,
\* limit = 0 and negative limits included.
C30Claim ==
    \A c \in CallIds :
        PaginatedReturned(c) =>
            LET out == calls[c].paginated[1]
            IN /\ out.pageSize >= 1
               /\ out.page.kind = "int"
               /\ out.page.value >= 1
               /\ out.totalPages.kind = "int"
               /\ out.totalPages.value >= 0

====
